---------------------------- MODULE Spec2Model ----------------------------
(* A model of generate.py: the rotation tracker (read_last_shapes,         *)
(* write_last_shape), the response parser (parse_response), the prompt     *)
(* assembler (build_prompt) and the per-document pipeline (generate,       *)
(* process_cert, main).                                                    *)
(*                                                                         *)
(* Texts are sequences of atoms.  An atom is one character class or one    *)
(* opaque run of characters:                                               *)
(*   " "   a whitespace character other than a line feed                   *)
(*   "\n"  a line feed                                                     *)
(*   "BT"  a backtick                                                      *)
(*   "{" "}" a brace                                                       *)
(*   "x"   any other character                                             *)
(*   "J1".."J5"  a well-formed one-line JSON object text, see JsonText     *)
(*   "H"   a well-formed one-line JSON object text holding an integer      *)
(*         literal of more than 4300 digits                                *)
(*   "S1".."S5"  the text of a catalog shape, see SHAPES                   *)
(*   "<7>" stands for a JSON value that is not a string (a number)         *)
EXTENDS Integers, Sequences, FiniteSets, TLC

VARIABLES
    raw,        \* parse_response: the raw text handed in
    stem,       \* parse_response: cert_path.stem
    parsed,     \* parse_response: what the call produced ("none" before it)
    shapeFile,  \* content of SHAPE_STATE_PATH, or Absent
    recorded,   \* history of the shapes handed to write_last_shape
    inbox,      \* the names of the files in INBOX
    inboxBytes, \* the content of each file in INBOX
    doneBytes,  \* the content of each file under DONE
    drops,      \* the number of files put into INBOX since the start
    dirs,       \* the directories <<category, short_name>> that exist under DONE
    done,       \* the files under DONE, as <<directory, name>>
    posts,      \* the content of post.md, by directory
    hasKey,     \* GOOGLE_API_KEY is set for this invocation
    pc,         \* main: "idle", "loop" (in the for loop) or "exited"
    target,     \* main: the target argument, NoTarget without one
    found,      \* main: the documents this invocation set out to process
    certs,      \* main: the documents still to process
    flagged,    \* main: the flag records collected so far
    summary,    \* main: the flagged items printed at the end
    exitStatus, \* how the invocation ended
    runs,       \* what each process_cert call of this invocation did
    invocations, \* the number of invocations started
    promptArgs, \* build_prompt: the arguments handed in
    prompt      \* build_prompt: the text it returned (NoPrompt before the call)

parseVars == <<raw, stem, parsed>>

rotVars == <<shapeFile, recorded>>

fsVars == <<inbox, dirs, done, posts, inboxBytes, doneBytes, drops>>

mainVars == <<hasKey, pc, target, found, certs, flagged, summary, exitStatus, runs,
              invocations>>

promptVars == <<promptArgs, prompt>>

vars == <<parseVars, rotVars, fsVars, mainVars, promptVars>>

----------------------------------------------------------------------------
(* Bounds of the model *)

MaxLines == 4

MaxWrites == 5

MaxInvocations == 2

MaxDrops == 1

MaxShapes == 4

----------------------------------------------------------------------------
(* Text primitives: str.strip, str.split, str.join *)

NL == "\n"

Whitespace == {" ", NL}

Min(S) == CHOOSE m \in S : \A k \in S : m <= k

Max(S) == CHOOSE m \in S : \A k \in S : m >= k

\* s.strip(chars): drop the leading and trailing atoms that are in chars
StripChars(s, chars) ==
    LET keep == {i \in 1..Len(s) : s[i] \notin chars}
    IN  IF keep = {} THEN <<>> ELSE SubSeq(s, Min(keep), Max(keep))

\* s.strip()
Strip(s) == StripChars(s, Whitespace)

\* s.split(sep): the pieces between the occurrences of sep, empty ones kept
RECURSIVE Split(_, _)
Split(s, sep) ==
    LET at == {i \in 1..Len(s) : s[i] = sep}
    IN  IF at = {} THEN <<s>>
        ELSE <<SubSeq(s, 1, Min(at) - 1)>> \o Split(SubSeq(s, Min(at) + 1, Len(s)), sep)

\* sep.join(parts)
RECURSIVE Join(_, _)
Join(parts, sep) ==
    IF parts = <<>> THEN <<>>
    ELSE IF Len(parts) = 1 THEN parts[1]
    ELSE parts[1] \o <<sep>> \o Join(Tail(parts), sep)

\* s.splitlines(): the lines of s; a final line feed ends the last line, it
\* opens no further one
SplitLines(s) ==
    LET pieces == Split(s, NL)
    IN  IF s = <<>> THEN <<>>
        ELSE IF pieces[Len(pieces)] = <<>> THEN SubSeq(pieces, 1, Len(pieces) - 1)
        ELSE pieces

\* seq[-k:]
LastK(seq, k) ==
    IF Len(seq) <= k THEN seq ELSE SubSeq(seq, Len(seq) - k + 1, Len(seq))

----------------------------------------------------------------------------
(* Program constants *)

CATEGORIES ==
    {"clinical", "courses-and-workshops", "research-and-audits",
     "volunteering-and-leadership", "other"}

SHAPES == {<<"S1">>, <<"S2">>, <<"S3">>, <<"S4">>, <<"S5">>}

\* parse_response looks at the last LOOKBACK lines
LOOKBACK == 3

\* a variant of KEEP that keeps one shape more
KeepOneMore == LOOKBACK + 2

\* the rotation record keeps the last KEEP shapes
KEEP == 4

\* the marker of a file that does not exist
Absent == <<"<absent>">>

----------------------------------------------------------------------------
(* Shape cycling: read_last_shapes, write_last_shape *)

\* [l.strip() for l in text.splitlines() if l.strip()]
NonBlankLines(text) ==
    LET ls == SplitLines(text)
        stripped == [i \in 1..Len(ls) |-> Strip(ls[i])]
    IN  SelectSeq(stripped, LAMBDA l : l # <<>>)

read_last_shapes(file) ==
    IF file # Absent THEN LastK(NonBlankLines(file), KEEP) ELSE <<>>

\* the content write_last_shape(shape) leaves in the state file
write_last_shape(file, shape) ==
    LET existing == Append(read_last_shapes(file), shape)
    IN  Join(LastK(existing, KEEP), NL) \o <<NL>>

----------------------------------------------------------------------------
(* json.loads on a candidate line *)

\* The JSON object texts the model can emit, by the object each decodes to.
\* J1: every key present, all values well-formed
\* J2: an unknown category, low confidence, short_name and shape_used missing
\* J3: values that are not strings, and a key that is not a metadata key
\* J4: a short_name that is not a string, low confidence, a catalog shape
\* J5: a short_name with a path separator in it, "../up"
JsonText ==
    [J1 |-> [category |-> "clinical", short_name |-> "bls", confidence |-> "high",
             flag_reason |-> "", shape_used |-> <<"S1">>],
     J2 |-> [category |-> "bogus", confidence |-> "low", flag_reason |-> "blurry"],
     J3 |-> [category |-> "<7>", short_name |-> "<7>", shape_used |-> <<"<7>">>,
             extra |-> "y"],
     J4 |-> [short_name |-> "<7>", confidence |-> "low", shape_used |-> <<"S2">>],
     J5 |-> [category |-> "clinical", short_name |-> "../up"]]

JsonAtoms == DOMAIN JsonText

\* str.startswith("{") / str.endswith("}"): the first (last) character of a
\* JSON object text is a brace
OpensBrace(a) == a \in {"{", "H"} \cup JsonAtoms

ClosesBrace(a) == a \in {"}", "H"} \cup JsonAtoms

EmptyObject == [k \in {} |-> ""]

\* json.loads(candidate): the decoded object, json.JSONDecodeError for a text
\* that is not JSON, ValueError for an integer literal over the digit limit
json_loads(candidate) ==
    IF Len(candidate) = 1 /\ candidate[1] \in JsonAtoms
        THEN [ok |-> TRUE, value |-> JsonText[candidate[1]]]
    ELSE IF Len(candidate) = 1 /\ candidate[1] = "H"
        THEN [ok |-> FALSE, error |-> "ValueError"]
    ELSE IF /\ Len(candidate) >= 2
            /\ candidate[1] = "{"
            /\ candidate[Len(candidate)] = "}"
            /\ \A i \in 2..(Len(candidate) - 1) : candidate[i] = " "
        THEN [ok |-> TRUE, value |-> EmptyObject]
    ELSE [ok |-> FALSE, error |-> "JSONDecodeError"]

----------------------------------------------------------------------------
(* parse_response *)

\* a variant of DefaultMeta whose default confidence is "low"
DefaultMetaLow(fallback) ==
    [category |-> "other", short_name |-> fallback, confidence |-> "low",
     flag_reason |-> "", shape_used |-> <<>>]

\* a variant of DefaultMeta whose default shape_used names a catalog shape
DefaultMetaShaped(fallback) ==
    [category |-> "other", short_name |-> fallback, confidence |-> "medium",
     flag_reason |-> "", shape_used |-> <<"S1">>]

DefaultMeta(fallback) ==
    [category |-> "other", short_name |-> fallback, confidence |-> "medium",
     flag_reason |-> "", shape_used |-> <<>>]

\* a variant of Update in which the keys already set win
UpdateKeepingOld(meta, obj) ==
    [k \in (DOMAIN meta) \cup (DOMAIN obj) |->
        IF k \in DOMAIN meta THEN meta[k] ELSE obj[k]]

\* dict.update
Update(meta, obj) ==
    [k \in (DOMAIN meta) \cup (DOMAIN obj) |->
        IF k \in DOMAIN obj THEN obj[k] ELSE meta[k]]

\* a variant of CoerceCategory that lets every category through
CoerceCategoryOff(meta) == meta

\* if meta["category"] not in CATEGORIES: meta["category"] = "other"
CoerceCategory(meta) ==
    IF meta["category"] \notin CATEGORIES
        THEN [meta EXCEPT !["category"] = "other"]
        ELSE meta

\* lines[i].strip().strip(BT)
Candidate(line) == StripChars(Strip(line), {"BT"})

\* candidate.startswith("{") and candidate.endswith("}")
BraceShaped(candidate) ==
    /\ candidate # <<>>
    /\ OpensBrace(candidate[1])
    /\ ClosesBrace(candidate[Len(candidate)])

\* a variant of ScanFloor that lets the loop visit every line
ScanFloorWhole(n) == 1

\* the first line index the loop visits (1-based):
\* range(len(lines) - 1, max(len(lines) - 4, -1), -1)
ScanFloor(n) == IF n - LOOKBACK + 1 > 1 THEN n - LOOKBACK + 1 ELSE 1

\* the for loop, from line i down to line lo
RECURSIVE ScanLines(_, _, _, _, _)
ScanLines(text, lines, i, lo, fallback) ==
    IF i < lo
        THEN [status |-> "returned", body |-> text, meta |-> DefaultMeta(fallback)]
    ELSE LET candidate == Candidate(lines[i])
             decoded == json_loads(candidate)
         IN  IF ~BraceShaped(candidate)
                 THEN ScanLines(text, lines, i - 1, lo, fallback)
             ELSE IF decoded.ok
                 THEN [status |-> "returned",
                       body |-> Strip(Join(SubSeq(lines, 1, i - 1), NL)),
                       meta |-> CoerceCategory(Update(DefaultMeta(fallback), decoded.value))]
             ELSE IF decoded.error = "JSONDecodeError"
                 THEN ScanLines(text, lines, i - 1, lo, fallback)
             ELSE [status |-> "raised", error |-> decoded.error]

\* parse_response(raw, cert_path): (post_text, meta), or the exception that
\* escapes it
parse_response(text, fallback) ==
    LET stripped == Strip(text)
        lines == Split(stripped, NL)
    IN  ScanLines(stripped, lines, Len(lines), ScanFloor(Len(lines)), fallback)

----------------------------------------------------------------------------
(* Inputs of the parser *)

LineShapes ==
    { <<>>,
      <<" ">>,
      <<"x">>,
      <<"J1">>,
      <<" ", "BT", "J2", "BT">>,
      <<"BT", " ", "J1">>,
      <<"J3">>,
      <<"J5">>,
      <<"{", "x", "}">>,
      <<"{", " ", "}">>,
      <<"H">> }

RawTexts ==
    { Join(ls, NL) : ls \in UNION { [1..n -> LineShapes] : n \in 1..MaxLines } }

Stems == {"cert"}

NoTarget == "<none>"

NotPrinted == [printed |-> FALSE, items |-> <<>>]

NoPrompt == <<"<no prompt>">>

NoArgs == [filename |-> "", notes |-> <<>>, tone |-> "", last_shapes |-> <<>>]

\* the pipeline at rest
AtRest ==
    /\ inbox = {}
    /\ inboxBytes = <<>>
    /\ dirs = {}
    /\ done = {}
    /\ doneBytes = <<>>
    /\ drops = 0
    /\ posts = <<>>
    /\ hasKey = TRUE
    /\ pc = "idle"
    /\ target = NoTarget
    /\ found = <<>>
    /\ certs = <<>>
    /\ flagged = <<>>
    /\ summary = NotPrinted
    /\ exitStatus = "running"
    /\ runs = <<>>
    /\ invocations = 0

IdleMain ==
    /\ AtRest
    /\ promptArgs = NoArgs
    /\ prompt = NoPrompt

InitParse ==
    /\ raw \in RawTexts
    /\ stem \in Stems
    /\ parsed = [status |-> "none"]
    /\ shapeFile = Absent
    /\ recorded = <<>>
    /\ IdleMain

Parse ==
    /\ parsed.status = "none"
    /\ parsed' = parse_response(raw, stem)
    /\ UNCHANGED <<raw, stem, rotVars, fsVars, mainVars, promptVars>>

NextParse == Parse

SpecParse == InitParse /\ [][NextParse]_vars

----------------------------------------------------------------------------
(* The rotation tracker on its own: any sequence of write_last_shape calls *)

\* the shapes handed to write_last_shape: the catalog, and texts that are
\* not one plain line
ShapeValues ==
    SHAPES \cup { <<" ", "S1">>, <<"S1", NL, "S2">>, <<" ">> }

InitRot ==
    /\ raw = <<>>
    /\ stem \in Stems
    /\ parsed = [status |-> "none"]
    /\ shapeFile = Absent
    /\ recorded = <<>>
    /\ IdleMain

WriteLastShape(shape) ==
    /\ Len(recorded) < MaxWrites
    /\ shapeFile' = write_last_shape(shapeFile, shape)
    /\ recorded' = Append(recorded, shape)
    /\ UNCHANGED <<parseVars, fsVars, mainVars, promptVars>>

NextRot == \E shape \in ShapeValues : WriteLastShape(shape)

SpecRot == InitRot /\ [][NextRot]_vars

----------------------------------------------------------------------------
(* The intake directory *)

\* the files that may lie in INBOX
SortedFiles == <<"a.notes.txt", "a.pdf", "b.notes.txt", "b.png", "todo.txt">>

InboxFiles == {SortedFiles[i] : i \in 1..Len(SortedFiles)}

\* the files of INBOX that are neither a document nor the notes of one
Bystanders == {"todo.txt"}

\* the content of the files in INBOX at the start; the k-th file put there
\* later has content k
FirstBytes == 0

\* Path.suffix.lower()
Suffix ==
    [f \in InboxFiles \cup {"missing.pdf"} |->
        CASE f = "a.pdf" -> ".pdf"
          [] f = "b.png" -> ".png"
          [] f = "missing.pdf" -> ".pdf"
          [] OTHER -> ".txt"]

\* Path.stem
StemOf ==
    [f \in InboxFiles \cup {"missing.pdf"} |->
        CASE f = "a.pdf" -> "a"
          [] f = "b.png" -> "b"
          [] f = "a.notes.txt" -> "a.notes"
          [] f = "b.notes.txt" -> "b.notes"
          [] f = "missing.pdf" -> "missing"
          [] OTHER -> "todo"]

\* cert_path.parent / f"{cert_path.stem}.notes.txt"
NotesFile(cert) ==
    CASE StemOf[cert] = "a" -> "a.notes.txt"
      [] StemOf[cert] = "b" -> "b.notes.txt"
      [] OTHER -> "<no such file>"

SUPPORTED == {".png", ".jpg", ".jpeg", ".webp", ".heic", ".heif", ".pdf"}

\* the characters of a file name, as code points
Spelling ==
    [f \in InboxFiles \cup {"missing.pdf"} |->
        CASE f = "a.notes.txt" -> <<97, 46, 110, 111, 116, 101, 115, 46, 116, 120, 116>>
          [] f = "a.pdf" -> <<97, 46, 112, 100, 102>>
          [] f = "b.notes.txt" -> <<98, 46, 110, 111, 116, 101, 115, 46, 116, 120, 116>>
          [] f = "b.png" -> <<98, 46, 112, 110, 103>>
          [] f = "missing.pdf" -> <<109, 105, 115, 115, 105, 110, 103, 46, 112, 100, 102>>
          [] OTHER -> <<116, 111, 100, 111, 46, 116, 120, 116>>]

\* the order of two paths of one folder: that of their names as strings,
\* character by character, a proper prefix first
RECURSIVE LexLess(_, _)
LexLess(s, t) ==
    IF t = <<>> THEN FALSE
    ELSE IF s = <<>> THEN TRUE
    ELSE IF Head(s) # Head(t) THEN Head(s) < Head(t)
    ELSE LexLess(Tail(s), Tail(t))

\* sorted(files)
RECURSIVE sorted(_)
sorted(files) ==
    IF files = {} THEN <<>>
    ELSE LET first == CHOOSE f \in files :
                          \A g \in files \ {f} : LexLess(Spelling[f], Spelling[g])
         IN  <<first>> \o sorted(files \ {first})

\* a variant of find_all_certs that takes every file of the folder
find_all_files(folder) == sorted(folder)

\* sorted(f for f in folder.iterdir() if f.is_file() and f.suffix.lower() in SUPPORTED)
find_all_certs(folder) ==
    sorted({f \in folder : Suffix[f] \in SUPPORTED})

----------------------------------------------------------------------------
(* build_prompt *)

\* Prompt texts are sequences of atoms too:
\*   "HEAD" "AFTER_NAME" "FORMAT"  the fixed parts of POST_PROMPT
\*   a file name                   the text put in for {filename}
\*   "TONE_CASUAL" "TONE_FORMAL" "TONE_DEFAULT"  the three tone lines
\*   "RECENT"     Recently used shapes (most recent last):
\*   "DIFFERENT"  . Pick a DIFFERENT shape ... before repeating any.
\*   "PICK_ANY"   Pick any shape from the list of 5 post shapes ...
\*   "Q" ","      a double quote, a comma
\*   "NOTES_OPEN" "NOTES_CLOSE"  the text around the notes
\*   "NO_NOTES"   No reflection notes provided. ...

tone_lines ==
    [casual |-> <<"TONE_CASUAL">>, formal |-> <<"TONE_FORMAL">>,
     default |-> <<"TONE_DEFAULT">>]

\* tone_lines.get(tone, tone_lines["default"])
ToneLine(tone) ==
    IF tone \in DOMAIN tone_lines THEN tone_lines[tone] ELSE tone_lines["default"]

\* sep.join(parts) for a separator of more than one character
RECURSIVE JoinText(_, _)
JoinText(parts, sep) ==
    IF parts = <<>> THEN <<>>
    ELSE IF Len(parts) = 1 THEN parts[1]
    ELSE parts[1] \o sep \o JoinText(Tail(parts), sep)

\* ", ".join(f'"{s}"' for s in last_shapes)
Recent(last_shapes) ==
    JoinText([i \in 1..Len(last_shapes) |-> <<"Q">> \o last_shapes[i] \o <<"Q">>],
             <<",", " ">>)

\* a variant of ShapeLine that never names the recent shapes
ShapeLineAny(last_shapes) == <<"PICK_ANY">>

ShapeLine(last_shapes) ==
    IF last_shapes # <<>>
        THEN <<"RECENT">> \o Recent(last_shapes) \o <<"DIFFERENT">>
        ELSE <<"PICK_ANY">>

NotesSection(notes) ==
    IF notes # <<>>
        THEN <<"NOTES_OPEN">> \o notes \o <<"NOTES_CLOSE">>
        ELSE <<"NO_NOTES">>

\* POST_PROMPT.format(filename=..., tone_line=..., shape_line=..., notes_section=...)
build_prompt(filename, notes, tone, last_shapes) ==
    <<"HEAD", filename, "AFTER_NAME">> \o ToneLine(tone) \o <<NL, NL>>
        \o ShapeLine(last_shapes) \o <<NL, NL>> \o NotesSection(notes) \o <<"FORMAT">>

\* the arguments build_prompt is called with
PromptFiles == {"a.pdf", "b.png"}

NotesTexts == {<<>>, <<"x">>, <<"x", NL, "x">>}

Tones == {"casual", "formal", "default", "playful"}

PromptShapes == {<<"S1">>, <<"S2">>, <<"x", " ", "x">>}

ShapeLists == UNION {[1..n -> PromptShapes] : n \in 0..MaxShapes}

InitPrompt ==
    /\ raw = <<>>
    /\ stem \in Stems
    /\ parsed = [status |-> "none"]
    /\ shapeFile = Absent
    /\ recorded = <<>>
    /\ AtRest
    /\ promptArgs \in [filename : PromptFiles, notes : NotesTexts, tone : Tones,
                        last_shapes : ShapeLists]
    /\ prompt = NoPrompt

BuildPrompt ==
    /\ prompt = NoPrompt
    /\ promptArgs # NoArgs
    /\ prompt' = build_prompt(promptArgs.filename, promptArgs.notes, promptArgs.tone,
                              promptArgs.last_shapes)
    /\ UNCHANGED <<parseVars, rotVars, fsVars, mainVars, promptArgs>>

NextPrompt == BuildPrompt

SpecPrompt == InitPrompt /\ [][NextPrompt]_vars

----------------------------------------------------------------------------
(* generate and process_cert *)

\* what the model may answer
ModelResponses ==
    { <<"x", NL, "J1">>,
      <<"x", NL, "J2">>,
      <<"x">>,
      <<"x", NL, "J3">>,
      <<"x", NL, "J4">>,
      <<"x", NL, "H">> }

\* a model call that raised, or was never made, gave no response
NoResponse == <<"<no response>">>

\* the step of a run at which the environment makes a call raise
Faults == {"none", "infer", "mkdir", "move_cert", "move_notes", "write_post"}

\* the steps of a run, in the order process_cert takes them
StepNo ==
    [key |-> 1, infer |-> 2, parse |-> 3, shape |-> 4, path |-> 5, mkdir |-> 6,
     move_cert |-> 7, move_notes |-> 8, write_post |-> 9, none |-> 10]

\* a JSON value that is a string: "\n".join and Path / str accept no other
IsStrText(v) == \A i \in 1..Len(v) : v[i] # "<7>"

IsStrName(v) == v # "<7>"

\* a variant of generate that does not look for the key
generateWithoutKeyCheck(key, fault, response, fallback) ==
    IF fault = "infer" THEN [status |-> "raised", error |-> "APIError"]
    ELSE parse_response(response, fallback)

\* generate(cert_path, notes, tone, last_shapes): sys.exit(1) without a key,
\* the exception of a failed model call, or what parse_response makes of the
\* response
generate(key, fault, response, fallback) ==
    IF ~key THEN [status |-> "exit"]
    ELSE IF fault = "infer" THEN [status |-> "raised", error |-> "APIError"]
    ELSE parse_response(response, fallback)

\* main: tone = "default" unless --tone is given
DefaultTone == "default"

\* find_notes: the stripped text of the notes file, None without one
NotesOf(hadNotes) == IF hadNotes THEN <<"x">> ELSE <<>>

\* a variant of PromptOf that hands build_prompt no recent shapes
PromptWithoutShapes(key, cert, hadNotes, last_shapes) ==
    IF key THEN build_prompt(cert, NotesOf(hadNotes), DefaultTone, <<>>)
    ELSE NoPrompt

\* generate: the prompt it builds once the key is found
PromptOf(key, cert, hadNotes, last_shapes) ==
    IF key THEN build_prompt(cert, NotesOf(hadNotes), DefaultTone, last_shapes)
    ELSE NoPrompt

\* the metadata process_cert works with
MetaOf(gen, fallback) ==
    IF gen.status = "returned" THEN gen.meta ELSE DefaultMeta(fallback)

\* a variant of BodyOf that loses the post text
BodyOfNothing(gen) == <<>>

\* the post text process_cert works with
BodyOf(gen) ==
    IF gen.status = "returned" THEN gen.body ELSE <<>>

\* the first step of the run that does not complete ("none": all complete)
FailAt(gen, fault, hadNotes, fallback) ==
    LET meta == MetaOf(gen, fallback)
    IN  IF gen.status = "exit" THEN "key"
        ELSE IF gen.status = "raised"
            THEN (IF gen.error = "APIError" THEN "infer" ELSE "parse")
        ELSE IF meta["shape_used"] # <<>> /\ ~IsStrText(meta["shape_used"]) THEN "shape"
        ELSE IF ~IsStrName(meta["short_name"]) THEN "path"
        ELSE IF fault \in {"mkdir", "move_cert", "write_post"} THEN fault
        ELSE IF fault = "move_notes" /\ hadNotes THEN fault
        ELSE "none"

\* a variant of Passed in which a failed step does not stop the run
PassedRegardless(step, failAt) == TRUE

\* the run got past this step
Passed(step, failAt) == StepNo[step] < StepNo[failAt]

\* DONE / category / short_name
DestDir(meta) == <<meta["category"], meta["short_name"]>>

\* the components of the path a name stands for: Path splits it at "/"
PathParts(name) == IF name = "../up" THEN <<"..", "up">> ELSE <<name>>

\* {"file": cert_path.name, "reason": flag_reason, "path": str(dest_dir)}
FlagRecord(cert, meta) ==
    [file |-> cert, reason |-> meta["flag_reason"], path |-> DestDir(meta)]

NoFlag == [file |-> "<none>"]

\* a variant of Flagged that flags every confidence other than "high"
FlaggedUnlessHigh(meta) == meta["confidence"] # "high"

\* if confidence == "low"
Flagged(meta) == meta["confidence"] = "low"

\* one call of process_cert on the next document, by main's for loop or its
\* single-target branch; an exception, or sys.exit, ends the invocation
ProcessCert(fault, response) ==
    /\ pc = "loop"
    /\ certs # <<>>
    /\ response = NoResponse <=> (~hasKey \/ fault = "infer")
    /\ \E cert \in {Head(certs)} :
       \E hadNotes \in {NotesFile(cert) \in inbox} :
       \E last_shapes \in {read_last_shapes(shapeFile)} :
       \E gen \in {generate(hasKey, fault, response, StemOf[cert])} :
       \E meta \in {MetaOf(gen, StemOf[cert])} :
       \E failAt \in {FailAt(gen, fault, hadNotes, StemOf[cert])} :
       LET notes == NotesFile(cert)
           dir == DestDir(meta)
           body == BodyOf(gen)
           wrote == Passed("shape", failAt) /\ meta["shape_used"] # <<>>
           movedCert == Passed("move_cert", failAt)
           movedNotes == Passed("move_notes", failAt) /\ hadNotes
           low == Flagged(meta)
           flag == IF failAt = "none" /\ low THEN FlagRecord(cert, meta) ELSE NoFlag
       IN  \* a fault is the failure of a call the run makes
           /\ fault # "none" => failAt = fault
           /\ shapeFile' = IF wrote THEN write_last_shape(shapeFile, meta["shape_used"])
                           ELSE shapeFile
           /\ recorded' = IF wrote THEN Append(recorded, meta["shape_used"]) ELSE recorded
           /\ dirs' = IF Passed("mkdir", failAt) THEN dirs \cup {dir} ELSE dirs
           /\ inbox' = (inbox \ (IF movedCert THEN {cert} ELSE {}))
                           \ (IF movedNotes THEN {notes} ELSE {})
           /\ done' = (done \cup (IF movedCert THEN {<<dir, cert>>} ELSE {}))
                           \cup (IF movedNotes THEN {<<dir, notes>>} ELSE {})
           /\ inboxBytes' = [f \in inbox' |-> inboxBytes[f]]
           /\ doneBytes' = [p \in done' |->
                                IF movedCert /\ p = <<dir, cert>> THEN inboxBytes[cert]
                                ELSE IF movedNotes /\ p = <<dir, notes>>
                                    THEN inboxBytes[notes]
                                ELSE doneBytes[p]]
           /\ drops' = drops
           /\ posts' = IF Passed("write_post", failAt)
                           THEN [d \in (DOMAIN posts) \cup {dir} |->
                                    IF d = dir THEN body ELSE posts[d]]
                           ELSE posts
           /\ flagged' = IF flag # NoFlag THEN Append(flagged, flag) ELSE flagged
           /\ runs' = Append(runs, [cert |-> cert, hadNotes |-> hadNotes,
                                    shapes |-> last_shapes,
                                    prompt |-> PromptOf(hasKey, cert, hadNotes,
                                                        last_shapes),
                                    fault |-> fault,
                                    response |-> response, failAt |-> failAt,
                                    meta |-> meta, body |-> body, flag |-> flag])
           /\ certs' = IF failAt = "none" THEN Tail(certs) ELSE certs
           /\ pc' = IF failAt = "none" THEN "loop" ELSE "exited"
           /\ exitStatus' = IF failAt = "none" THEN exitStatus
                            ELSE IF failAt = "key" THEN "1"
                            ELSE "traceback"
    /\ UNCHANGED <<parseVars, hasKey, target, found, summary, invocations, promptVars>>

----------------------------------------------------------------------------
(* main *)

Targets == {NoTarget, "a.pdf", "missing.pdf"}

\* main up to its first process_cert call: the arguments, then either the
\* single target or the documents find_all_certs finds
Start(tgt, key) ==
    /\ pc \in {"idle", "exited"}
    /\ invocations < MaxInvocations
    /\ invocations' = invocations + 1
    /\ hasKey' = key
    /\ target' = tgt
    /\ flagged' = <<>>
    /\ summary' = NotPrinted
    /\ runs' = <<>>
    /\ IF tgt # NoTarget
           THEN IF tgt \notin inbox
                    THEN /\ found' = <<>>
                         /\ pc' = "exited"
                         /\ exitStatus' = "1"
                    ELSE /\ found' = <<tgt>>
                         /\ pc' = "loop"
                         /\ exitStatus' = "running"
           ELSE /\ found' = find_all_certs(inbox)
                /\ IF find_all_certs(inbox) = <<>>
                       THEN pc' = "exited" /\ exitStatus' = "0"
                       ELSE pc' = "loop" /\ exitStatus' = "running"
    /\ certs' = found'
    /\ UNCHANGED <<parseVars, rotVars, fsVars, promptVars>>

\* main after its last process_cert call: the summary
Summary ==
    /\ pc = "loop"
    /\ certs = <<>>
    /\ summary' = [printed |-> TRUE, items |-> flagged]
    /\ pc' = "exited"
    /\ exitStatus' = "0"
    /\ UNCHANGED <<parseVars, rotVars, fsVars, hasKey, target, found, certs, flagged,
                   runs, invocations, promptVars>>

\* the files put into INBOX after the start
DropFiles == {"a.pdf"}

\* a file is put into INBOX between two invocations
Drop(f) ==
    /\ pc = "exited"
    /\ invocations < MaxInvocations
    /\ drops < MaxDrops
    /\ f \notin inbox
    /\ drops' = drops + 1
    /\ inbox' = inbox \cup {f}
    /\ inboxBytes' = [g \in inbox' |-> IF g = f THEN drops' ELSE inboxBytes[g]]
    /\ UNCHANGED <<parseVars, rotVars, dirs, done, posts, doneBytes, mainVars,
                   promptVars>>

Init ==
    /\ raw = <<>>
    /\ stem \in Stems
    /\ parsed = [status |-> "none"]
    /\ shapeFile = Absent
    /\ recorded = <<>>
    /\ inbox \in {files \cup Bystanders : files \in SUBSET (InboxFiles \ Bystanders)}
    /\ inboxBytes = [f \in inbox |-> FirstBytes]
    /\ dirs = {}
    /\ done = {}
    /\ doneBytes = <<>>
    /\ drops = 0
    /\ posts = <<>>
    /\ hasKey = TRUE
    /\ pc = "idle"
    /\ target = NoTarget
    /\ found = <<>>
    /\ certs = <<>>
    /\ flagged = <<>>
    /\ summary = NotPrinted
    /\ exitStatus = "running"
    /\ runs = <<>>
    /\ invocations = 0
    /\ promptArgs = NoArgs
    /\ prompt = NoPrompt

Next ==
    \/ \E tgt \in Targets, key \in BOOLEAN : Start(tgt, key)
    \/ \E fault \in Faults, response \in ModelResponses \cup {NoResponse} :
            ProcessCert(fault, response)
    \/ Summary
    \/ \E f \in DropFiles : Drop(f)

Spec == Init /\ [][Next]_vars

----------------------------------------------------------------------------
(* Properties of the pipeline *)

RunIds == 1..Len(runs)

\* C1: after an archival attempt for a document with a sibling notes file,
\* whichever step raised, the document and its notes are on the same side:
\* both in the destination directory or both still in the intake directory.
C1_NoSplitArchive ==
    \A i \in RunIds :
        runs[i].hadNotes =>
            LET cert == runs[i].cert
                notes == NotesFile(cert)
                dir == DestDir(runs[i].meta)
            IN  \/ cert \in inbox /\ notes \in inbox
                \/ /\ cert \notin inbox /\ notes \notin inbox
                   /\ <<dir, cert>> \in done /\ <<dir, notes>> \in done

\* C2: in a batch (no target), when the model call for one document raises,
\* every document of the batch has been attempted by the time the invocation
\* ends: the failure stops only that document.
C2_BatchContinuesAfterModelFailure ==
    (/\ pc = "exited"
     /\ target = NoTarget
     /\ \E i \in RunIds : runs[i].failAt = "infer")
        => \A j \in 1..Len(found) : \E i \in RunIds : runs[i].cert = found[j]

\* C3: a run whose model call raises leaves the intake directory and the
\* archive as they were: the document and its notes stay where they are, no
\* directory is created, no body file written, nothing moved.
C3_ModelFailureTouchesNothing ==
    [][ (/\ Len(runs') = Len(runs) + 1
         /\ hasKey
         /\ runs'[Len(runs')].fault = "infer")
            => UNCHANGED <<inbox, dirs, done, posts>> ]_vars

C3_Witness ==
    /\ Len(runs) >= 2
    /\ done # {}
    /\ LET last == runs[Len(runs)]
       IN  /\ last.fault = "infer"
           /\ last.failAt = "infer"
           /\ last.hadNotes
           /\ last.cert \in inbox
           /\ NotesFile(last.cert) \in inbox

\* C10: every run that returned a flag record appears exactly once in the
\* summary printed at the end of the invocation, whatever happened to the
\* documents processed after it.
C10_EveryFlagReported ==
    pc = "exited" =>
        \A i \in RunIds :
            runs[i].flag # NoFlag =>
                /\ summary.printed
                /\ Cardinality({j \in 1..Len(summary.items) :
                                    summary.items[j].file = runs[i].cert}) = 1

\* C11: a process_cert run that completes returns a flag record exactly when
\* the confidence of its metadata is "low"; the record carries the document's
\* file name, the metadata's flag_reason and the destination directory.  A
\* run with any other confidence returns no flag.
C11_FlagIffLowConfidence ==
    \A i \in RunIds :
        runs[i].failAt = "none" =>
            IF runs[i].meta["confidence"] = "low"
                THEN runs[i].flag =
                         [file |-> runs[i].cert,
                          reason |-> runs[i].meta["flag_reason"],
                          path |-> <<runs[i].meta["category"],
                                     runs[i].meta["short_name"]>>]
                ELSE runs[i].flag = NoFlag

C11_Witness ==
    \E i, j \in RunIds :
        /\ runs[i].failAt = "none"
        /\ runs[i].meta["confidence"] = "low"
        /\ runs[i].flag # NoFlag
        /\ runs[i].flag.reason = "blurry"
        /\ runs[j].failAt = "none"
        /\ runs[j].meta["confidence"] = "medium"
        /\ runs[j].flag = NoFlag

\* the documents in the archive directory dir other than the document doc
\* with content bytes
OtherDocuments(dir, doc, bytes) ==
    {n \in InboxFiles : /\ Suffix[n] \in SUPPORTED
                        /\ <<dir, n>> \in done
                        /\ <<n, doneBytes[<<dir, n>>]>> # <<doc, bytes>>}

\* C12: when a run archives a document into the directory (category,
\* short_name) into which an earlier run archived a different document
\* (the directory holds that document and a body file), the run succeeds
\* (no step fails because the directory or its body file exists), afterwards
\* the directory holds both documents, and the body file holds this run's
\* body.
C12_SecondArchiveKeepsBoth ==
    [][ (/\ Len(runs') = Len(runs) + 1
         /\ runs'[Len(runs')].fault = "none"
         /\ StepNo[runs'[Len(runs')].failAt] > StepNo["path"]
         /\ DestDir(runs'[Len(runs')].meta) \in DOMAIN posts
         /\ OtherDocuments(DestDir(runs'[Len(runs')].meta), runs'[Len(runs')].cert,
                           inboxBytes[runs'[Len(runs')].cert]) # {})
            => LET r == runs'[Len(runs')]
                   dir == DestDir(r.meta)
               IN  /\ r.failAt = "none"
                   /\ <<dir, r.cert>> \in done'
                   /\ doneBytes'[<<dir, r.cert>>] = inboxBytes[r.cert]
                   /\ \A n \in OtherDocuments(dir, r.cert, inboxBytes[r.cert]) :
                          /\ <<dir, n>> \in done'
                          /\ doneBytes'[<<dir, n>>] = doneBytes[<<dir, n>>]
                   /\ posts'[dir] = r.body ]_vars

\* C13: when creating the destination directory or a move fails, no later
\* archival step of that run takes place (nothing further is moved, no body
\* file is written, no flag is returned) and the document is still in the
\* intake directory, with its content, to be tried again.
C13_FailedArchivalLeavesDocument ==
    [][ (/\ Len(runs') = Len(runs) + 1
         /\ runs'[Len(runs')].failAt \in {"mkdir", "move_cert", "move_notes"})
            => LET r == runs'[Len(runs')]
               IN  /\ posts' = posts
                   /\ r.flag = NoFlag
                   /\ flagged' = flagged
                   /\ r.failAt \in {"mkdir", "move_cert"} =>
                          UNCHANGED <<inbox, done>>
                   /\ r.cert \in inbox'
                   /\ inboxBytes'[r.cert] = inboxBytes[r.cert] ]_vars

----------------------------------------------------------------------------
(* Properties of the rotation tracker *)

\* C4: read_last_shapes returns at most 4 entries, and they are exactly the
\* most recently recorded shape values, in recording order, newest last.
C4_ReadReturnsLastRecorded ==
    /\ Len(read_last_shapes(shapeFile)) <= 4
    /\ read_last_shapes(shapeFile) = LastK(recorded, 4)

\* the set of shapes process_cert hands to build_prompt as recently used
Forbidden == {read_last_shapes(shapeFile)[i] : i \in 1..Len(read_last_shapes(shapeFile))}

\* the last k shapes handed to write_last_shape
LastRecorded(k) == {recorded[i] : i \in {j \in 1..Len(recorded) : j > Len(recorded) - k}}

\* C15: in every state of the rotation record the set of recently used
\* shapes has at most 4 elements, so at least one of the 5 catalog shapes is
\* not in it; after 4 distinct catalog shapes have been recorded one after
\* the other, exactly one catalog shape is not in it.
C15_OneShapeStaysLegal ==
    /\ Cardinality(Forbidden) <= 4
    /\ SHAPES \ Forbidden # {}
    /\ (/\ Len(recorded) >= 4
        /\ LastRecorded(4) \subseteq SHAPES
        /\ Cardinality(LastRecorded(4)) = 4)
           => Cardinality(SHAPES \ Forbidden) = 1

C15_Witness ==
    /\ Len(recorded) = 5
    /\ recorded[1] = <<"S5">>
    /\ LastRecorded(4) = SHAPES \ {<<"S5">>}
    /\ SHAPES \ Forbidden = {<<"S5">>}

----------------------------------------------------------------------------
(* Properties of build_prompt *)

\* the text holds the atom
Has(text, atom) == \E i \in 1..Len(text) : text[i] = atom

\* the text holds each of the shapes between double quotes, one after the
\* other in the order of the list, from position from on
RECURSIVE NamedInOrder(_, _, _)
NamedInOrder(text, from, shapes) ==
    IF shapes = <<>> THEN TRUE
    ELSE LET q == <<"Q">> \o Head(shapes) \o <<"Q">>
         IN  \E i \in from..(Len(text) - Len(q) + 1) :
                 /\ SubSeq(text, i, i + Len(q) - 1) = q
                 /\ NamedInOrder(text, i + Len(q), Tail(shapes))

\* C18: the prompt build_prompt returns holds exactly one of the two shape
\* instructions: "pick any shape" and not "recently used shapes" for an empty
\* list of recent shapes; "recently used shapes", followed by every shape of
\* the list in the list's order, and not "pick any shape" for a non-empty
\* one.  With tone "casual", no notes and an empty list it holds the casual
\* tone line and "pick any shape".
C18_OneShapeInstruction ==
    prompt # NoPrompt =>
        LET ls == promptArgs.last_shapes
            instructions == {i \in 1..Len(prompt) : prompt[i] \in {"PICK_ANY", "RECENT"}}
        IN  /\ Cardinality(instructions) = 1
            /\ ls = <<>> => Has(prompt, "PICK_ANY") /\ ~Has(prompt, "RECENT")
            /\ ls # <<>> =>
                   /\ Has(prompt, "RECENT") /\ ~Has(prompt, "PICK_ANY")
                   /\ \E i \in instructions : NamedInOrder(prompt, i + 1, ls)
            /\ (promptArgs.tone = "casual" /\ promptArgs.notes = <<>> /\ ls = <<>>) =>
                   Has(prompt, "TONE_CASUAL") /\ Has(prompt, "PICK_ANY")

C18_Witness ==
    /\ prompt # NoPrompt
    /\ promptArgs.tone = "casual"
    /\ promptArgs.notes = <<>>
    /\ promptArgs.last_shapes = <<<<"S2">>, <<"x", " ", "x">>, <<"S1">>>>
    /\ Has(prompt, "TONE_CASUAL")
    /\ Has(prompt, "RECENT")

----------------------------------------------------------------------------
(* Properties of parse_response *)

MetaKeys == {"category", "short_name", "confidence", "flag_reason", "shape_used"}

\* the defaults of section 4.4, for the document at hand
FallbackMeta ==
    [category |-> "other", short_name |-> stem, confidence |-> "medium",
     flag_reason |-> "", shape_used |-> <<>>]

\* the lines of a text after trimming it
TrimmedLines(t) == Split(Strip(t), NL)

LastThree(ls) == {i \in 1..Len(ls) : i > Len(ls) - 3}

\* a {...}-shaped line after trimming whitespace and backticks
Shaped(line) == BraceShaped(Candidate(line))

Decodable(line) == Shaped(line) /\ json_loads(Candidate(line)).ok

\* the lines among the last three that are {...}-shaped and decode
MetadataLines(ls) == {i \in LastThree(ls) : Decodable(ls[i])}

RecordOf(line) == json_loads(Candidate(line)).value

\* C5: the category parse_response returns is one of the 5 fixed categories
\* (an unrecognized one is replaced by "other").
\* so is the category component of the directory process_cert computes from it.
C5_CategoryInFixedSet ==
    parsed.status = "returned" =>
        /\ parsed.meta["category"] \in CATEGORIES
        /\ DestDir(parsed.meta)[1] \in CATEGORIES

C5_Witness ==
    /\ parsed.status = "returned"
    /\ MetadataLines(TrimmedLines(raw)) # {}
    /\ LET ls == TrimmedLines(raw)
           rec == RecordOf(ls[Max(MetadataLines(ls))])
       IN  /\ "category" \in DOMAIN rec
           /\ rec["category"] \notin CATEGORIES
    /\ parsed.meta["category"] = "other"

C8_RecordMergedOntoDefaults ==
    (parsed.status = "returned" /\ MetadataLines(TrimmedLines(raw)) # {}) =>
        LET ls == TrimmedLines(raw)
            rec == RecordOf(ls[Max(MetadataLines(ls))])
        IN  /\ \A k \in MetaKeys \ {"category"} :
                   parsed.meta[k] = IF k \in DOMAIN rec THEN rec[k] ELSE FallbackMeta[k]
            /\ parsed.meta["category"] =
                   IF "category" \in DOMAIN rec /\ rec["category"] \in CATEGORIES
                       THEN rec["category"]
                       ELSE "other"

C8_Witness ==
    /\ parsed.status = "returned"
    /\ MetadataLines(TrimmedLines(raw)) # {}
    /\ LET ls == TrimmedLines(raw)
           rec == RecordOf(ls[Max(MetadataLines(ls))])
       IN  /\ "short_name" \notin DOMAIN rec
           /\ "confidence" \in DOMAIN rec
           /\ parsed.meta["short_name"] = stem
           /\ parsed.meta["confidence"] = rec["confidence"]
           /\ parsed.meta["confidence"] # "medium"

\* C9: parse_response is total: a call, once made, has returned a
\* (body, metadata) pair and has not raised.
C9_ParseNeverRaises ==
    parsed.status # "none" => parsed.status = "returned"

\* the directory is one directory directly under DONE / category
DirectlyUnderCategory(dir) ==
    /\ Len(PathParts(dir[2])) = 1
    /\ PathParts(dir[2])[1] \notin {"", ".", ".."}

\* C19: the short_name parse_response returns for a response is a safe
\* file name: the directory process_cert computes from the category and the
\* short_name is one directory directly under DONE / category, not a nested
\* path and not a path outside the archive.
C19_ShortNameIsOneDirectory ==
    (parsed.status = "returned" /\ IsStrName(parsed.meta["short_name"])) =>
        DirectlyUnderCategory(DestDir(parsed.meta))

----------------------------------------------------------------------------
(* Properties of the pipeline that speak of the model's response *)

\* the record parse_response extracts from a response, empty without one
ResponseRecord(response) ==
    LET ls == TrimmedLines(response)
    IN  IF MetadataLines(ls) = {} THEN EmptyObject
        ELSE RecordOf(ls[Max(MetadataLines(ls))])

\* the run the step at hand has just made
IsRun == Len(runs') = Len(runs) + 1

\* C14: a run whose response was parsed and whose metadata record has no
\* shape_used, or an empty one (every run that fell back to the defaults
\* among them), leaves the rotation record as it was: read_last_shapes
\* returns the same sequence after the run as before it.
C14_NoShapeNoRotationChange ==
    [][ (/\ IsRun
         /\ StepNo[runs'[Len(runs')].failAt] > StepNo["parse"]
         /\ LET rec == ResponseRecord(runs'[Len(runs')].response)
            IN  "shape_used" \in DOMAIN rec => rec["shape_used"] = <<>>)
            => /\ read_last_shapes(shapeFile') = read_last_shapes(shapeFile)
               /\ recorded' = recorded ]_vars

C14_Witness ==
    /\ Len(runs) = 2
    /\ runs[1].meta["shape_used"] = <<"S1">>
    /\ runs[2].failAt = "none"
    /\ runs[2].response = <<"x">>
    /\ runs[2].shapes = <<<<"S1">>>>
    /\ read_last_shapes(shapeFile) = <<<<"S1">>>>

\* C16: a run reads the rotation record at its start, before the model
\* call, and the shapes read are the ones named in the prompt; it writes the
\* rotation record at most once, and only after the model call has returned
\* and the parsed metadata has a non-empty shape_used, which is the shape
\* written.  A run whose generation fails does not write the rotation record.
C16_ReadThenModelThenWrite ==
    [][ IsRun =>
          LET r == runs'[Len(runs')]
              before == read_last_shapes(shapeFile)
              rec == ResponseRecord(r.response)
          IN  /\ r.shapes = before
              /\ r.prompt # NoPrompt =>
                     IF before = <<>>
                         THEN Has(r.prompt, "PICK_ANY") /\ ~Has(r.prompt, "RECENT")
                         ELSE /\ ~Has(r.prompt, "PICK_ANY")
                              /\ \E i \in 1..Len(r.prompt) :
                                     /\ r.prompt[i] = "RECENT"
                                     /\ NamedInOrder(r.prompt, i + 1, before)
              /\ Len(recorded') <= Len(recorded) + 1
              /\ shapeFile' # shapeFile => recorded' # recorded
              /\ recorded' # recorded =>
                     /\ StepNo[r.failAt] > StepNo["parse"]
                     /\ "shape_used" \in DOMAIN rec
                     /\ rec["shape_used"] # <<>>
                     /\ recorded' = Append(recorded, rec["shape_used"])
              /\ r.failAt \in {"key", "infer", "parse"} =>
                     UNCHANGED <<shapeFile, recorded>> ]_vars

C16_Witness ==
    /\ Len(runs) = 2
    /\ runs[2].shapes = <<<<"S1">>>>
    /\ Has(runs[2].prompt, "RECENT")
    /\ runs[2].meta["shape_used"] = <<"S2">>
    /\ read_last_shapes(shapeFile) = <<<<"S1">>, <<"S2">>>>

\* a step of the invocation at hand: its start, one of its runs, its summary
IsInvocationStep ==
    \/ invocations' # invocations
    \/ IsRun
    \/ summary' # summary

\* the files, the archive and the rotation record
Persistent == <<inbox, inboxBytes, dirs, done, doneBytes, posts, shapeFile, recorded>>

\* C17 as amended: an invocation without the model credential that has a
\* document to process ends at its first document with exit status 1, and
\* no step of it moves a document or a notes file, creates an archive
\* directory or a body file, or changes the rotation record.
C17_MissingKeyAbortsAtFirstDocument ==
    [][ (~hasKey' /\ IsInvocationStep) =>
            /\ UNCHANGED Persistent
            /\ (pc' = "exited" /\ found' # <<>>) =>
                   /\ exitStatus' = "1"
                   /\ Len(runs') = 1
                   /\ runs'[1].failAt = "key" ]_vars

C17_Witness ==
    /\ ~hasKey
    /\ pc = "exited"
    /\ invocations = 2
    /\ done # {}
    /\ Len(found) = 2
    /\ exitStatus = "1"
    /\ Len(runs) = 1
    /\ runs[1].cert \in inbox
    /\ runs[1].hadNotes

\* C17 as claimed: every invocation without the model credential ends with
\* a non-zero exit status, and no step of it moves a document or a notes
\* file, creates an archive directory or a body file, or changes the
\* rotation record.
C17_MissingKeyAlwaysExitsNonZero ==
    [][ (~hasKey' /\ IsInvocationStep) =>
            /\ UNCHANGED Persistent
            /\ pc' = "exited" => exitStatus' \in {"1", "traceback"} ]_vars

\* C20: after a process_cert run that completes, the document is no longer
\* in the intake directory and is, under its name and with its content, in
\* DONE / category / short_name; its notes file, if there was one, is in the
\* same directory under its name; and post.md in that directory holds
\* exactly the body parsed from the response.
C20_CompletedRunArchivesAll ==
    [][ (IsRun /\ runs'[Len(runs')].failAt = "none") =>
          LET r == runs'[Len(runs')]
              dir == <<r.meta["category"], r.meta["short_name"]>>
              notes == NotesFile(r.cert)
          IN  /\ r.cert \notin inbox'
              /\ <<dir, r.cert>> \in done'
              /\ doneBytes'[<<dir, r.cert>>] = inboxBytes[r.cert]
              /\ notes \in inbox =>
                     /\ notes \notin inbox'
                     /\ <<dir, notes>> \in done'
                     /\ doneBytes'[<<dir, notes>>] = inboxBytes[notes]
              /\ dir \in dirs'
              /\ dir \in DOMAIN posts'
              /\ posts'[dir] = parse_response(r.response, StemOf[r.cert]).body ]_vars

C20_Witness ==
    /\ Len(runs) = 1
    /\ runs[1].failAt = "none"
    /\ runs[1].cert = "a.pdf"
    /\ runs[1].hadNotes
    /\ runs[1].response = <<"x", NL, "J1">>
    /\ inbox \cap {"a.pdf", "a.notes.txt"} = {}
    /\ {<<<<"clinical", "bls">>, "a.pdf">>, <<<<"clinical", "bls">>, "a.notes.txt">>}
           \subseteq done
    /\ posts[<<"clinical", "bls">>] = <<"x">>

----------------------------------------------------------------------------
(* Properties of the batch *)

\* the name a comes before the name b in the lexicographic order: at the
\* first position where they differ a has the smaller character, or a ends
NameBefore(a, b) ==
    LET s == Spelling[a]
        t == Spelling[b]
    IN  \E k \in 1..Len(t) :
            /\ k <= Len(s) + 1
            /\ \A i \in 1..(k - 1) : s[i] = t[i]
            /\ k = Len(s) + 1 \/ s[k] < t[k]

\* C21: in a batch invocation the documents are the files directly in the
\* intake directory whose extension is supported, in the lexicographic order
\* of their names, and they are processed one at a time in that order: the
\* n-th run is that of the n-th document, it starts when every run before
\* it has completed, and it reads the rotation record those runs left.
C21_BatchInSortedOrder ==
    [][ target' = NoTarget =>
          /\ invocations' # invocations =>
                 /\ {found'[i] : i \in 1..Len(found')}
                        = {f \in inbox : Suffix[f] \in SUPPORTED}
                 /\ \A i, j \in 1..Len(found') :
                        i < j => NameBefore(found'[i], found'[j])
          /\ IsRun =>
                 LET n == Len(runs')
                 IN  /\ n <= Len(found')
                     /\ runs'[n].cert = found'[n]
                     /\ runs'[n].cert \in inbox
                     /\ Suffix[runs'[n].cert] \in SUPPORTED
                     /\ \A j \in 1..(n - 1) : runs'[j].failAt = "none"
                     /\ runs'[n].shapes = read_last_shapes(shapeFile) ]_vars

C21_Witness ==
    /\ target = NoTarget
    /\ found = <<"a.pdf", "b.png">>
    /\ Len(runs) = 2
    /\ runs[1].cert = "a.pdf"
    /\ runs[1].hadNotes
    /\ runs[1].meta["shape_used"] = <<"S1">>
    /\ runs[2].cert = "b.png"
    /\ runs[2].shapes = <<<<"S1">>>>
    /\ runs[2].failAt = "none"
    /\ inbox = {"todo.txt"}

----------------------------------------------------------------------------
(* Properties of the order of the rotation write and the archival *)

\* the shape_used of the record parse_response extracts, empty without one
ShapeReturned(response) ==
    LET rec == ResponseRecord(response)
    IN  IF "shape_used" \in DOMAIN rec THEN rec["shape_used"] ELSE <<>>

\* C22: the rotation record is updated before any file is moved.  Every run
\* whose generation returned a non-empty shape_used and that got as far as
\* the archival appends that shape to the rotation record, a retry of a
\* document as much as its first run; and when the archival then fails, the
\* rotation history ends with that shape while the document is still in
\* the intake directory, pending.
C22_RecordedBeforeArchival ==
    [][ (/\ IsRun
         /\ StepNo[runs'[Len(runs')].failAt] > StepNo["path"]
         /\ ShapeReturned(runs'[Len(runs')].response) # <<>>)
            => LET r == runs'[Len(runs')]
                   shape == ShapeReturned(r.response)
                   after == read_last_shapes(shapeFile')
               IN  /\ recorded' = Append(recorded, shape)
                   /\ after # <<>>
                   /\ after[Len(after)] = shape
                   /\ r.failAt # "none" =>
                          /\ r.cert \in inbox'
                          /\ inboxBytes'[r.cert] = inboxBytes[r.cert] ]_vars


\* ---------------------------------------------------------------------
\* Properties of the archive across runs
\* ---------------------------------------------------------------------

\* C23: a completed run destroys nothing archived earlier: every document
\* and notes file that was, before the run, in a directory under done/ that
\* an earlier run completed (the directory holds a body file) is in that
\* directory after it, with the content it had, and the only body file the
\* run may replace is the post.md of the directory it archives into.
C23_ArchiveKeepsEarlierFiles ==
    [][ (IsRun /\ runs'[Len(runs')].failAt = "none")
            => /\ \A p \in {q \in done : q[1] \in DOMAIN posts} :
                      /\ p \in done'
                      /\ doneBytes'[p] = doneBytes[p]
               /\ \A d \in DOMAIN posts :
                      /\ d \in DOMAIN posts'
                      /\ d # DestDir(runs'[Len(runs')].meta) => posts'[d] = posts[d] ]_vars

=============================================================================
